---- MODULE Spec2Model ----
(***************************************************************************)
(* A model of selenide-lang: the opcode codec (se-opcodes/codes.rs), the   *)
(* execution context (se-opcodes/registry.rs), the lexer and the parser's  *)
(* value expressions (se-compiler/lexer.rs, parser.rs).                    *)
(*                                                                         *)
(* Each component has its own specification (SpecCodec, SpecCtx, SpecLex,  *)
(* SpecValue); a specification holds the variables of the other components *)
(* at their idle values.                                                   *)
(***************************************************************************)
EXTENDS Integers, Sequences, FiniteSets, TLC

VARIABLES
    \* ---- opcode codec: one decode/encode round trip
    hex,          \* the opcode byte handed to Opcode::from_hex
    operands,     \* the operand slice handed to Opcode::from_hex
    decoded,      \* the Result<Opcode, OpcodeError> of from_hex
    encoded,      \* the u8 of to_hex on the decoded instruction
    cpc,          \* where the round trip stands: "start", "decoded", "encoded"
    \* ---- execution context
    state,        \* ExecutionContext.state: HashMap<Rc<str>, StateValue>
    memory,       \* ExecutionContext.memory: Vec<Value>
    ret,          \* the last call on the context: its name, arguments, result
    old_state,    \* state as it was when the last call was made
    old_memory,   \* memory as it was when the last call was made
    last_set,     \* history: per key, the value it was constructed with or last set to
    \* ---- lexer
    lx,           \* the Lexer and its inner lexers, outermost first
    tok,          \* the token the last next_token call returned
    out,          \* history: the tokens returned to the caller so far
    lstatus,      \* "running", "done" (Eof was returned), "panic" (the process aborted)
    \* ---- parser: one value expression, or one call of parse
    parser,           \* the Parser: its lexer (with the inner lexers) and current_token
    node,             \* the ASTNode expect_value or parse returned
    pstatus,          \* expect_value: "ready", "done" (it returned); parse: "parsing",
                      \* "returned"; both: "panic", "diverged" (a loop never ends)
    overflow_checks,  \* the build: TRUE with overflow checks (debug), FALSE without (release)
    root              \* parse's local root: the nodes pushed so far

codecVars == <<hex, operands, decoded, encoded, cpc>>
ctxVars == <<state, memory, ret, old_state, old_memory, last_set>>
lexVars == <<lx, tok, out, lstatus>>
valueVars == <<parser, node, pstatus, overflow_checks, root>>
vars == <<codecVars, ctxVars, lexVars, valueVars>>

(***************************************************************************)
(* Bounds of the model.                                                    *)
(***************************************************************************)
\* the longest operand slice handed to from_hex (the largest arity is 3)
MaxOperands == 4
\* the most registers the register file holds in the model
MaxRegs == 3
\* the longest generated numeric literal
MaxNumLen == 4
\* the most operators in a generated value expression
MaxOps == 2

\* operand bytes tried (u8 values; the codec never looks at them)
OperandBytes == {0, 7, 255}
\* every u8
Bytes == 0..255

(***************************************************************************)
(* codes.rs: enum Opcode, Opcode::from_hex, Opcode::to_hex                 *)
(***************************************************************************)
\* Ok(instruction): the variant's name and its operand fields in order
Ok(op, args) ==
    [ok |-> TRUE, op |-> op, args |-> args, err |-> "", e1 |-> 0, e2 |-> 0]

\* Err(OpcodeError::InvalidOpcode(hex))
InvalidOpcode(code) ==
    [ok |-> FALSE, op |-> "", args |-> <<>>, err |-> "InvalidOpcode",
     e1 |-> code, e2 |-> 0]

\* Err(OpcodeError::OperandLenghtMismatch(expected, actual))
OperandLenghtMismatch(expected, actual) ==
    [ok |-> FALSE, op |-> "", args |-> <<>>, err |-> "OperandLenghtMismatch",
     e1 |-> expected, e2 |-> actual]

\* the arm of a one-operand opcode (SQRT, CALL)
Unary(op, ops) ==
    IF Len(ops) # 1 THEN OperandLenghtMismatch(1, Len(ops))
    ELSE Ok(op, <<ops[1]>>)

\* a slip in a two-operand arm: the operands are taken in the wrong order
BinarySwapped(op, ops) ==
    IF Len(ops) # 2 THEN OperandLenghtMismatch(2, Len(ops))
    ELSE Ok(op, <<ops[2], ops[1]>>)

\* the arm of a two-operand opcode (ADD .. MOD, EXP, LOAD, STORE, SGET, SSET)
Binary(op, ops) ==
    IF Len(ops) # 2 THEN OperandLenghtMismatch(2, Len(ops))
    ELSE Ok(op, <<ops[1], ops[2]>>)

\* the arm of a three-operand opcode (SMGET, SMSET)
Ternary(op, ops) ==
    IF Len(ops) # 3 THEN OperandLenghtMismatch(3, Len(ops))
    ELSE Ok(op, <<ops[1], ops[2], ops[3]>>)

\* a slip in the catch-all arm: byte 0x10 is taken for one more opcode
from_hex_extra(code, ops) ==
    CASE code = 1 -> Binary("ADD", ops)
      [] code = 2 -> Binary("SUB", ops)
      [] code = 3 -> Binary("MUL", ops)
      [] code = 4 -> Binary("DIV", ops)
      [] code = 5 -> Binary("MOD", ops)
      [] code = 6 -> Unary("SQRT", ops)
      [] code = 7 -> Binary("EXP", ops)
      [] code = 8 -> Binary("LOAD", ops)
      [] code = 9 -> Binary("STORE", ops)
      [] code = 10 -> Binary("SGET", ops)
      [] code = 11 -> Binary("SSET", ops)
      [] code = 12 -> Ternary("SMGET", ops)
      [] code = 13 -> Ternary("SMSET", ops)
      [] code = 14 -> Unary("CALL", ops)
      [] code = 15 -> Ok("RET", <<>>)
      [] code = 16 -> Ok("RET", <<>>)
      [] OTHER -> InvalidOpcode(code)

\* Opcode::from_hex: the match on hex; the RET arm does not look at operands
from_hex(code, ops) ==
    CASE code = 1 -> Binary("ADD", ops)
      [] code = 2 -> Binary("SUB", ops)
      [] code = 3 -> Binary("MUL", ops)
      [] code = 4 -> Binary("DIV", ops)
      [] code = 5 -> Binary("MOD", ops)
      [] code = 6 -> Unary("SQRT", ops)
      [] code = 7 -> Binary("EXP", ops)
      [] code = 8 -> Binary("LOAD", ops)
      [] code = 9 -> Binary("STORE", ops)
      [] code = 10 -> Binary("SGET", ops)
      [] code = 11 -> Binary("SSET", ops)
      [] code = 12 -> Ternary("SMGET", ops)
      [] code = 13 -> Ternary("SMSET", ops)
      [] code = 14 -> Unary("CALL", ops)
      [] code = 15 -> Ok("RET", <<>>)
      [] OTHER -> InvalidOpcode(code)

\* Opcode::to_hex: the match on the variant
to_hex(ins) ==
    CASE ins.op = "ADD" -> 1
      [] ins.op = "SUB" -> 2
      [] ins.op = "MUL" -> 3
      [] ins.op = "DIV" -> 4
      [] ins.op = "MOD" -> 5
      [] ins.op = "SQRT" -> 6
      [] ins.op = "EXP" -> 7
      [] ins.op = "LOAD" -> 8
      [] ins.op = "STORE" -> 9
      [] ins.op = "SGET" -> 10
      [] ins.op = "SSET" -> 11
      [] ins.op = "SMGET" -> 12
      [] ins.op = "SMSET" -> 13
      [] ins.op = "CALL" -> 14
      [] ins.op = "RET" -> 15

\* all operand slices of length at most n over the bytes tried
RECURSIVE SlicesUpTo(_)
SlicesUpTo(n) ==
    IF n = 0 THEN {<<>>}
    ELSE LET shorter == SlicesUpTo(n - 1)
         IN  shorter \cup {Append(s, b) : s \in {t \in shorter : Len(t) = n - 1},
                                          b \in OperandBytes}

NoResult == [ok |-> FALSE, op |-> "", args |-> <<>>, err |-> "", e1 |-> 0, e2 |-> 0]

CodecIdle ==
    /\ hex = 0
    /\ operands = <<>>
    /\ decoded = NoResult
    /\ encoded = 0
    /\ cpc = "idle"

\* any opcode byte with any operand slice
CodecInit ==
    /\ hex \in Bytes
    /\ operands \in SlicesUpTo(MaxOperands)
    /\ decoded = NoResult
    /\ encoded = 0
    /\ cpc = "start"

\* a caller decodes the byte and its operands
Decode ==
    /\ cpc = "start"
    /\ decoded' = from_hex(hex, operands)
    /\ cpc' = "decoded"
    /\ UNCHANGED <<hex, operands, encoded>>
    /\ UNCHANGED <<ctxVars, lexVars, valueVars>>

\* a caller encodes the instruction that decode gave it
Encode ==
    /\ cpc = "decoded"
    /\ decoded.ok
    /\ encoded' = to_hex(decoded)
    /\ cpc' = "encoded"
    /\ UNCHANGED <<hex, operands, decoded>>
    /\ UNCHANGED <<ctxVars, lexVars, valueVars>>

CodecNext == Decode \/ Encode

(***************************************************************************)
(* registry.rs: StateValue, Value, ExecutionContext                        *)
(***************************************************************************)
\* A StateValue or a Value: the variant and its payload.  The context only
\* stores and returns values, so a payload is a small number standing for it.
Uint8(n) == [tag |-> "Uint8", v |-> n]
Uint128(n) == [tag |-> "Uint128", v |-> n]
Bool(n) == [tag |-> "Bool", v |-> n]
NoValue == [tag |-> "", v |-> 0]

\* the values tried: two variants sharing a payload, and a third
Values == {Uint8(1), Uint128(1), Bool(0)}
\* the state names tried
Keys == {"x", "y", "missing"}
\* the register indices tried: every index of a full file, and one past it
Indices == 0..MaxRegs

\* the HashMap with no entry
EmptyMap == [k \in {} |-> NoValue]
\* every HashMap over the names tried
Maps == UNION {[d -> Values] : d \in SUBSET Keys}

\* the result of a call: Ok with what it returns, or Err(RegistryError)
OkUnit == [ok |-> TRUE, value |-> NoValue, index |-> 0, err |-> "", ekey |-> "", e1 |-> 0, e2 |-> 0]
OkValue(val) == [OkUnit EXCEPT !.value = val]
OkIndex(i) == [OkUnit EXCEPT !.index = i]
\* Err(RegistryError::InvalidStateRegister(key))
InvalidStateRegister(key) ==
    [OkUnit EXCEPT !.ok = FALSE, !.err = "InvalidStateRegister", !.ekey = key]
\* Err(RegistryError::OutOfBounds(index, size))
OutOfBounds(index, size) ==
    [OkUnit EXCEPT !.ok = FALSE, !.err = "OutOfBounds", !.e1 = index, !.e2 = size]

\* HashMap::insert of a key
MapInsert(map, key, value) ==
    [k \in DOMAIN map \cup {key} |-> IF k = key THEN value ELSE map[k]]

\* ExecutionContext::get_state: the entry, or InvalidStateRegister
get_state(st, key) ==
    IF key \in DOMAIN st THEN OkValue(st[key]) ELSE InvalidStateRegister(key)

\* a slip in set_state: an existing entry is kept (or_insert)
set_state_keep(st, key, value) ==
    IF key \in DOMAIN st THEN st ELSE MapInsert(st, key, value)

\* ExecutionContext::set_state: *entry = value on a present key, insert on an
\* absent one; both arms return Ok(())
set_state(st, key, value) ==
    IF key \in DOMAIN st THEN [st EXCEPT ![key] = value]
    ELSE MapInsert(st, key, value)

\* ExecutionContext::malloc: push, then len() - 1
malloc(mem, value) ==
    LET pushed == Append(mem, value)
    IN  [memory |-> pushed, result |-> OkIndex(Len(pushed) - 1)]

\* a slip for Vec::remove: swap_remove, which moves the last element into the gap
VecSwapRemove(vec, index) ==
    IF index = Len(vec) - 1 THEN SubSeq(vec, 1, Len(vec) - 1)
    ELSE [j \in 1..(Len(vec) - 1) |-> IF j = index + 1 THEN vec[Len(vec)] ELSE vec[j]]

\* Vec::remove(index): the elements before index, then those after it
VecRemove(vec, index) ==
    SubSeq(vec, 1, index) \o SubSeq(vec, index + 2, Len(vec))

\* a slip in delloc: the error carries (size, index)
delloc_swapped(mem, index) ==
    IF index < Len(mem)
    THEN [memory |-> VecRemove(mem, index), result |-> OkUnit]
    ELSE [memory |-> mem, result |-> OutOfBounds(Len(mem), index)]

\* ExecutionContext::delloc: remove below len(), else OutOfBounds(index, len())
delloc(mem, index) ==
    IF index < Len(mem)
    THEN [memory |-> VecRemove(mem, index), result |-> OkUnit]
    ELSE [memory |-> mem, result |-> OutOfBounds(index, Len(mem))]

\* a slip in clear_memory: the first register survives (truncate(1))
clear_memory_keep(mem) == IF mem = <<>> THEN <<>> ELSE <<mem[1]>>

\* ExecutionContext::clear_memory: Vec::clear
clear_memory(mem) == <<>>

\* the record of a call: its name and arguments, and its result
Call(op, key, value, index, result) ==
    [op |-> op, key |-> key, arg |-> value, index |-> index, result |-> result]

CtxIdle ==
    /\ state = EmptyMap
    /\ memory = <<>>
    /\ ret = Call("idle", "", NoValue, 0, OkUnit)
    /\ old_state = EmptyMap
    /\ old_memory = <<>>
    /\ last_set = EmptyMap

\* ExecutionContext::new_empty, or new_with_state with any map
CtxInit ==
    /\ state \in Maps
    /\ memory = <<>>
    /\ ret = Call("new", "", NoValue, 0, OkUnit)
    /\ old_state = state
    /\ old_memory = <<>>
    /\ last_set = state

GetState(key) ==
    /\ ret' = Call("get_state", key, NoValue, 0, get_state(state, key))
    /\ old_state' = state
    /\ old_memory' = memory
    /\ UNCHANGED <<state, memory, last_set>>
    /\ UNCHANGED <<codecVars, lexVars, valueVars>>

SetState(key, value) ==
    /\ state' = set_state(state, key, value)
    /\ ret' = Call("set_state", key, value, 0, OkUnit)
    /\ old_state' = state
    /\ old_memory' = memory
    /\ last_set' = MapInsert(last_set, key, value)
    /\ UNCHANGED memory
    /\ UNCHANGED <<codecVars, lexVars, valueVars>>

Malloc(value) ==
    /\ Len(memory) < MaxRegs
    /\ LET r == malloc(memory, value)
       IN  /\ memory' = r.memory
           /\ ret' = Call("malloc", "", value, 0, r.result)
    /\ old_state' = state
    /\ old_memory' = memory
    /\ UNCHANGED <<state, last_set>>
    /\ UNCHANGED <<codecVars, lexVars, valueVars>>

Delloc(index) ==
    /\ LET r == delloc(memory, index)
       IN  /\ memory' = r.memory
           /\ ret' = Call("delloc", "", NoValue, index, r.result)
    /\ old_state' = state
    /\ old_memory' = memory
    /\ UNCHANGED <<state, last_set>>
    /\ UNCHANGED <<codecVars, lexVars, valueVars>>

ClearMemory ==
    /\ memory' = clear_memory(memory)
    /\ ret' = Call("clear_memory", "", NoValue, 0, OkUnit)
    /\ old_state' = state
    /\ old_memory' = memory
    /\ UNCHANGED <<state, last_set>>
    /\ UNCHANGED <<codecVars, lexVars, valueVars>>

GetStateCall == \E key \in Keys : GetState(key)
SetStateCall == \E key \in Keys, value \in Values : SetState(key, value)
MallocCall == \E value \in Values : Malloc(value)
DellocCall == \E index \in Indices : Delloc(index)

CtxNext == GetStateCall \/ SetStateCall \/ MallocCall \/ DellocCall \/ ClearMemory

(***************************************************************************)
(* lexer.rs: Token, Lexer.  A source text is a string; a position is a     *)
(* byte offset from 0 (the texts tried are ASCII, one byte per character). *)
(***************************************************************************)
Digits == {"0", "1", "2", "3", "4", "5", "6", "7", "8", "9"}
\* char::is_alphabetic, on ASCII
Letters ==
    {"a", "b", "c", "d", "e", "f", "g", "h", "i", "j", "k", "l", "m",
     "n", "o", "p", "q", "r", "s", "t", "u", "v", "w", "x", "y", "z",
     "A", "B", "C", "D", "E", "F", "G", "H", "I", "J", "K", "L", "M",
     "N", "O", "P", "Q", "R", "S", "T", "U", "V", "W", "X", "Y", "Z"}
\* char::is_whitespace, on ASCII
Whitespace == {" ", "\n", "\t", "\r"}
\* the characters an identifier run goes on with
IdentChars == Letters \cup Digits \cup {"_", "$"}
\* the characters a numeric run goes on with
NumberChars == Digits \cup {".", "e", "E"}

\* &input[from..to]
Slice(input, from, to) == SubSeq(input, from + 1, to)
\* input[pos..].chars().next(), "" for None
CharAt(input, pos) == IF pos < Len(input) THEN SubSeq(input, pos + 1, pos + 1) ELSE ""

\* while current_char() is in set { advance() }: the position it stops at
RECURSIVE ScanWhile(_, _, _)
ScanWhile(input, pos, set) ==
    IF pos < Len(input) /\ CharAt(input, pos) \in set
    THEN ScanWhile(input, pos + 1, set)
    ELSE pos

\* while current_char() != stop { advance() }: the position it stops at
RECURSIVE ScanUntil(_, _, _)
ScanUntil(input, pos, stop) ==
    IF pos < Len(input) /\ CharAt(input, pos) # stop
    THEN ScanUntil(input, pos + 1, stop)
    ELSE pos

\* Lexer::advance: one character on, unless at the end
advance(input, pos) == IF pos < Len(input) THEN pos + 1 ELSE pos

\* Lexer::skip_whitespace
skip_whitespace(input, pos) == ScanWhile(input, pos, Whitespace)

\* a Token: its variant and the text it carries ("" for a variant without)
Tok(kind, text) == [kind |-> kind, text |-> text]
Eof == Tok("Eof", "")

\* build_keyword_map: the variant of a keyword, "" for no keyword
Keyword(identifier) ==
    CASE identifier = "$define" -> "Define"
      [] identifier = "version" -> "Version"
      [] identifier = "schemes" -> "Schemes"
      [] identifier = "$state" -> "State"
      [] identifier = "$consts" -> "Consts"
      [] identifier = "$procedures" -> "Procedures"
      [] identifier = "address" -> "Address"
      [] identifier = "table" -> "Table"
      [] identifier = "u128" -> "U128"
      [] identifier = "u8" -> "U8"
      [] identifier = "bool" -> "Bool"
      [] identifier = "pub" -> "PubFModifier"
      [] identifier = "mut" -> "MutFModifier"
      [] identifier = "return" -> "Return"
      [] OTHER -> ""

\* the index of the first 'e' or 'E' of a text (number.find(['e', 'E'])), -1 for None
RECURSIVE FindExp(_, _)
FindExp(number, from) ==
    IF from >= Len(number) THEN -1
    ELSE IF CharAt(number, from) \in {"e", "E"} THEN from
    ELSE FindExp(number, from + 1)

\* the text without its leading '0' characters
RECURSIVE StripZeros(_)
StripZeros(text) ==
    IF Len(text) > 0 /\ CharAt(text, 0) = "0" THEN StripZeros(Slice(text, 1, Len(text)))
    ELSE text

\* the value of a digit character
DigitValue(c) ==
    CASE c = "0" -> 0 [] c = "1" -> 1 [] c = "2" -> 2 [] c = "3" -> 3 [] c = "4" -> 4
      [] c = "5" -> 5 [] c = "6" -> 6 [] c = "7" -> 7 [] c = "8" -> 8 [] c = "9" -> 9

\* whether a text of digits, as long as the other, is at most the other
RECURSIVE DigitsLeq(_, _)
DigitsLeq(a, b) ==
    IF Len(a) = 0 THEN TRUE
    ELSE IF DigitValue(CharAt(a, 0)) < DigitValue(CharAt(b, 0)) THEN TRUE
    ELSE IF DigitValue(CharAt(a, 0)) > DigitValue(CharAt(b, 0)) THEN FALSE
    ELSE DigitsLeq(Slice(a, 1, Len(a)), Slice(b, 1, Len(b)))

\* the number a text of digits writes (a text that fits an i32)
RECURSIVE DigitsToInt(_, _)
DigitsToInt(text, acc) ==
    IF Len(text) = 0 THEN acc
    ELSE DigitsToInt(Slice(text, 1, Len(text)), acc * 10 + DigitValue(CharAt(text, 0)))

\* i32::MAX, written out
I32Max == "2147483647"

\* str::parse::<i32> on a text of a numeric run (which holds no sign): Some(n)
\* for a non-empty text of digits that fits an i32, None otherwise
ParseI32(text) ==
    LET digits == StripZeros(text)
    IN  IF Len(text) = 0 \/ \E i \in 0..(Len(text) - 1) : CharAt(text, i) \notin Digits
        THEN [some |-> FALSE, val |-> 0]
        ELSE IF Len(digits) > Len(I32Max)
                \/ (Len(digits) = Len(I32Max) /\ ~DigitsLeq(digits, I32Max))
        THEN [some |-> FALSE, val |-> 0]
        ELSE [some |-> TRUE, val |-> DigitsToInt(digits, 0)]

\* Lexer::parse_exponent: the text after the first exponent marker, parsed
parse_exponent(number) ==
    LET index == FindExp(number, 0)
    IN  IF index < 0 THEN [some |-> FALSE, val |-> 0]
        ELSE ParseI32(Slice(number, index + 1, Len(number)))

\* what the loop of expand_scientific_notation pushes: n times '0', none
\* for n <= 0 (built by halves)
RECURSIVE Zeros(_)
Zeros(n) ==
    IF n <= 0 THEN ""
    ELSE LET half == Zeros(n \div 2)
         IN  half \o half \o (IF n % 2 = 1 THEN "0" ELSE "")

\* a slip in expand_scientific_notation: the loop runs one time less
expand_one_less(base, exponent) == base \o Zeros(exponent - 1)

\* Lexer::expand_scientific_notation: base, then exponent times '0'
expand_scientific_notation(base, exponent) == base \o Zeros(exponent)

\* a slip in tokenize_number: the exponent marker is not looked for, so the
\* run is returned as it is written
tokenize_number_raw(input, start_pos) ==
    LET pos == ScanWhile(input, start_pos, NumberChars)
        number == Slice(input, start_pos, pos)
    IN  [pos |-> pos,
         tok |-> IF number = "." THEN Tok("Period", "") ELSE Tok("Number", number)]

\* Lexer::tokenize_number: the run of digits, '.', 'e', 'E'; expanded when the
\* text after the first marker parses as an i32; a lone "." is Period
tokenize_number(input, start_pos) ==
    LET pos == ScanWhile(input, start_pos, NumberChars)
        number == Slice(input, start_pos, pos)
        has_exponent == FindExp(number, 0) >= 0
        exponent == parse_exponent(number)
    IN  [pos |-> pos,
         tok |-> IF has_exponent /\ exponent.some
                 THEN Tok("Number",
                          expand_scientific_notation(
                              Slice(number, 0, FindExp(number, 0)), exponent.val))
                 ELSE IF number = "." THEN Tok("Period", "")
                 ELSE Tok("Number", number)]

\* Lexer::tokenize_include, up to the call of load_header: the name scanned
tokenize_include(input, pos0) ==
    LET pos1 == skip_whitespace(input, pos0)
        start_pos == IF CharAt(input, pos1) = "\"" THEN advance(input, pos1) ELSE pos1
        pos2 == ScanUntil(input, start_pos, "\"")
    IN  [pos |-> advance(input, pos2),
         tok |-> Tok("Include", Slice(input, start_pos, pos2))]

\* the last match of next_token: punctuation, or a one-character Operator
Punctuation(c) ==
    CASE c = "{" -> Tok("LeftBrace", "")
      [] c = "}" -> Tok("RightBrace", "")
      [] c = "[" -> Tok("LeftBracket", "")
      [] c = "]" -> Tok("RightBracket", "")
      [] c = "(" -> Tok("LeftParen", "")
      [] c = ")" -> Tok("RightParen", "")
      [] c = "," -> Tok("Comma", "")
      [] c = ";" -> Tok("SemiColon", "")
      [] c = "." -> Tok("Period", "")
      [] OTHER -> Tok("Operator", c)

\* Lexer::next_token of a lexer with no inner lexer (lines 109-173): the
\* position after the token, and the token
Scan(input, pos0) ==
    LET pos == skip_whitespace(input, pos0)
        c == CharAt(input, pos)
    IN  IF pos >= Len(input) THEN [pos |-> pos, tok |-> Eof]
        ELSE IF c = "/" /\ Slice(input, pos, pos + 2) = "//"
        THEN LET end == ScanUntil(input, pos, "\n")
             IN  [pos |-> end, tok |-> Tok("Comment", Slice(input, pos, end))]
        ELSE IF c = "$" \/ c \in Letters
        THEN LET end == ScanWhile(input, pos, IdentChars)
                 identifier == Slice(input, pos, end)
             IN  IF identifier = "$include" THEN tokenize_include(input, end)
                 ELSE IF Keyword(identifier) # ""
                 THEN [pos |-> end, tok |-> Tok(Keyword(identifier), "")]
                 ELSE [pos |-> end, tok |-> Tok("Identifier", identifier)]
        ELSE IF c = "\""
        THEN LET start_pos == advance(input, pos)
                 end_pos == ScanUntil(input, start_pos, "\"")
             IN  [pos |-> advance(input, end_pos),
                  tok |-> Tok("String", Slice(input, start_pos, end_pos))]
        ELSE IF c \in Digits \/ c = "."
        THEN tokenize_number(input, pos)
        ELSE [pos |-> advance(input, pos), tok |-> Punctuation(c)]

(***************************************************************************)
(* The lexer with its included files.  A Lexer owns at most one inner      *)
(* Lexer, which owns at most one more: the chain lx is the outermost lexer *)
(* followed by the inner ones, lx[i + 1] being lx[i].inner_lexer.          *)
(***************************************************************************)
\* the files under the working directory: name and content
Files ==
    [name \in {"a", "b", "c", "d", "e", "s", "t", "m", "n"} |->
        CASE name = "a" -> "x $include \"b\" y"
          [] name = "b" -> "7"
          [] name = "c" -> ""
          [] name = "d" -> "1 $include \"c\""
          [] name = "e" -> "$include \"d\""
          [] name = "s" -> "$include \"s\""
          [] name = "t" -> "1 $include \"t\" 2"
          [] name = "m" -> "$include \"n\" z"
          [] name = "n" -> "y $include \"m\""]

\* Lexer::new
NewLexer(input) == [input |-> input, pos |-> 0, included_files |-> <<>>]

\* load_header with a guard the source does not have: a file that a lexer of
\* the chain is already reading is not read again
load_header_once(chain, i, pos, filename) ==
    IF filename \notin DOMAIN Files
    THEN [lx |-> chain, tok |-> Tok("Include", filename), panic |-> TRUE]
    ELSE IF \E j \in 1..Len(chain) : chain[j].input = Files[filename]
    THEN [lx |-> [chain EXCEPT ![i].pos = pos],
          tok |-> Tok("Include", filename), panic |-> FALSE]
    ELSE [lx |-> Append([chain EXCEPT ![i].pos = pos,
                                      ![i].included_files = Append(@, Files[filename])],
                        NewLexer(Files[filename])),
          tok |-> Tok("Include", filename), panic |-> FALSE]

\* Lexer::load_header on the innermost lexer chain[i], already past the directive:
\* the file is read (a panic when it cannot be), its content is kept in
\* included_files and a lexer over it becomes the inner lexer
load_header(chain, i, pos, filename) ==
    IF filename \notin DOMAIN Files
    THEN [lx |-> chain, tok |-> Tok("Include", filename), panic |-> TRUE]
    ELSE LET content == Files[filename]
             self == [chain[i] EXCEPT !.pos = pos,
                                   !.included_files = Append(@, content)]
         IN  [lx |-> Append([chain EXCEPT ![i] = self], NewLexer(content)),
              tok |-> Tok("Include", filename), panic |-> FALSE]

RECURSIVE next_token(_, _)

\* a slip in next_token: the inner lexer's Eof is handed to the caller
next_token_leaky(chain, i) ==
    IF Len(chain) > i
    THEN LET inner == next_token(chain, i + 1)
         IN  IF ~inner.panic /\ inner.tok = Eof
             THEN [lx |-> SubSeq(inner.lx, 1, i), tok |-> Eof, panic |-> FALSE]
             ELSE inner
    ELSE LET r == Scan(chain[i].input, chain[i].pos)
         IN  IF r.tok.kind = "Include"
             THEN load_header(chain, i, r.pos, r.tok.text)
             ELSE [lx |-> [chain EXCEPT ![i].pos = r.pos], tok |-> r.tok, panic |-> FALSE]

\* the lexer chain[i] has scanned r: an include directive loads the header,
\* any other token is returned and the position moves past it
Scanned(chain, i, r) ==
    IF r.tok.kind = "Include"
    THEN load_header(chain, i, r.pos, r.tok.text)
    ELSE [lx |-> [chain EXCEPT ![i].pos = r.pos], tok |-> r.tok, panic |-> FALSE]

\* Lexer::next_token of the lexer chain[i]: with an inner lexer, the inner
\* lexer's token, or on its Eof the inner lexer is dropped and the call starts
\* over; with none, the lexer's own scan
next_token(chain, i) ==
    IF Len(chain) > i
    THEN LET inner == next_token(chain, i + 1)
         IN  IF ~inner.panic /\ inner.tok = Eof
             THEN next_token(SubSeq(inner.lx, 1, i), i)
             ELSE inner
    ELSE Scanned(chain, i, Scan(chain[i].input, chain[i].pos))

\* ---- the source texts tried
\* the characters numeric literals are made of
NumAlphabet == {"0", "1", "2", ".", "e", "E"}

\* every text of 1..n characters of NumAlphabet that starts a numeric run
RECURSIVE NumberTexts(_)
NumberTexts(n) ==
    IF n = 1 THEN {"0", "1", "2", "."}
    ELSE LET shorter == NumberTexts(n - 1)
         IN  shorter \cup {t \o c : t \in {u \in shorter : Len(u) = n - 1},
                                    c \in NumAlphabet}

\* literals of the specification's examples and of the limits of an i32
ExtraLiterals ==
    {"123", "1e5", "10e12", "1.5e3", "1e2147483648", "7e99999999999",
     "1e-5", "2.5E-3", "1e2.5", "3E0.5"}
\* what follows a literal: nothing, another literal, punctuation
Suffixes == {"", " 7", ";"}
NumberMains ==
    {lit \o suffix : lit \in NumberTexts(MaxNumLen) \cup ExtraLiterals,
                     suffix \in Suffixes}

\* texts with include directives: nested, at the end of a file, of an empty
\* file, one after the other, of a file that does not exist
IncludeMains ==
    {"p $include \"a\" q",
     "$include \"e\"",
     "$include \"e\" ; $include \"a\" z",
     "$include \"c\" $include \"b\"",
     "$include \"d\" 2",
     "k $include \"nofile\" z",
     "// note\n$define { version = \"1\" }"}

LexIdle ==
    /\ lx = <<>>
    /\ tok = Eof
    /\ out = <<>>
    /\ lstatus = "idle"

\* Lexer::new on a source text
LexInit ==
    /\ lx \in {<<NewLexer(text)>> : text \in NumberMains \cup IncludeMains}
    /\ tok = Eof
    /\ out = <<>>
    /\ lstatus = "running"

\* the caller's loop (as in test_define): next_token until it returns Eof
NextToken ==
    /\ lstatus = "running"
    /\ LET r == next_token(lx, 1)
       IN  /\ lx' = r.lx
           /\ tok' = r.tok
           /\ out' = IF r.panic THEN out ELSE Append(out, r.tok)
           /\ lstatus' = IF r.panic THEN "panic"
                         ELSE IF r.tok = Eof THEN "done"
                         ELSE "running"
    /\ UNCHANGED <<codecVars, ctxVars, valueVars>>

LexNext == NextToken

\* ---- files whose include chain leads back to themselves
\* the deepest chain of nested lexers followed
MaxDepth == 8

\* a file that includes itself (s, t), two files that include each other
\* (m, n), each as the main text, included by it, and after a file that ends
CycleMains ==
    {Files[name] : name \in {"s", "t", "m", "n"}}
        \cup {"$include \"" \o name \o "\"" : name \in {"s", "t", "m", "n"}}
        \cup {"p $include \"" \o name \o "\" q" : name \in {"s", "t", "m", "n"}}
        \cup {"$include \"b\" $include \"" \o name \o "\"" : name \in {"s", "m"}}

\* Lexer::new on a text whose includes form a cycle
CycleInit ==
    /\ lx \in {<<NewLexer(text)>> : text \in CycleMains}
    /\ tok = Eof
    /\ out = <<>>
    /\ lstatus = "running"

\* the caller's loop, followed while the chain is at most MaxDepth deep
NextTokenNested ==
    /\ Len(lx) < MaxDepth
    /\ NextToken

CycleNext == NextTokenNested

(***************************************************************************)
(* u128 arithmetic.  A u128 does not fit the model checker's integers: a   *)
(* natural number is the sequence of its base-10000 limbs (four decimal    *)
(* digits each), least significant first, without leading zero limbs (zero *)
(* is the empty sequence).  The product of two limbs fits an integer.      *)
(***************************************************************************)
Max2(a, b) == IF a >= b THEN a ELSE b
Limb(n, i) == IF i <= Len(n) THEN n[i] ELSE 0

\* the limbs without the zeros at the most significant end
RECURSIVE Norm(_)
Norm(n) ==
    IF Len(n) > 0 /\ n[Len(n)] = 0 THEN Norm(SubSeq(n, 1, Len(n) - 1)) ELSE n

\* the number a text of digits writes: limb j is the j-th group of four
\* digits from the end of the text
NatOfText(text) ==
    LET len == Len(text)
    IN  Norm([j \in 1..((len + 3) \div 4) |->
                DigitsToInt(Slice(text, Max2(0, len - 4 * j), len - 4 * (j - 1)), 0)])

\* the decimal text of a natural number that fits an integer
RECURSIVE DecimalText(_)
DecimalText(k) ==
    IF k < 10 THEN SubSeq("0123456789", k + 1, k + 1)
    ELSE DecimalText(k \div 10) \o SubSeq("0123456789", (k % 10) + 1, (k % 10) + 1)

\* a limb as four digits
Pad4(k) ==
    DecimalText(k \div 1000) \o DecimalText((k \div 100) % 10)
        \o DecimalText((k \div 10) % 10) \o DecimalText(k % 10)

RECURSIVE PadFrom(_, _)
PadFrom(n, i) == IF i = 0 THEN "" ELSE Pad4(n[i]) \o PadFrom(n, i - 1)

\* u128::to_string: the decimal text without leading zeros, "0" for zero
to_string(n) ==
    IF n = <<>> THEN "0" ELSE DecimalText(n[Len(n)]) \o PadFrom(n, Len(n) - 1)

\* -1, 0, 1 as a < b, a = b, a > b
RECURSIVE CmpFrom(_, _, _)
CmpFrom(a, b, i) ==
    IF i = 0 THEN 0
    ELSE IF a[i] < b[i] THEN -1
    ELSE IF a[i] > b[i] THEN 1
    ELSE CmpFrom(a, b, i - 1)
Cmp(a, b) ==
    IF Len(a) < Len(b) THEN -1
    ELSE IF Len(a) > Len(b) THEN 1
    ELSE CmpFrom(a, b, Len(a))

RECURSIVE AddFrom(_, _, _, _)
AddFrom(a, b, i, carry) ==
    IF i > Max2(Len(a), Len(b)) THEN (IF carry = 0 THEN <<>> ELSE <<carry>>)
    ELSE LET t == Limb(a, i) + Limb(b, i) + carry
         IN  <<t % 10000>> \o AddFrom(a, b, i + 1, t \div 10000)
AddN(a, b) == AddFrom(a, b, 1, 0)

\* a - b, for a >= b
RECURSIVE SubFrom(_, _, _, _)
SubFrom(a, b, i, borrow) ==
    IF i > Len(a) THEN <<>>
    ELSE LET t == a[i] - Limb(b, i) - borrow
         IN  IF t < 0 THEN <<t + 10000>> \o SubFrom(a, b, i + 1, 1)
             ELSE <<t>> \o SubFrom(a, b, i + 1, 0)
SubN(a, b) == Norm(SubFrom(a, b, 1, 0))

\* a times one limb
RECURSIVE MulLimbFrom(_, _, _, _)
MulLimbFrom(a, d, i, carry) ==
    IF i > Len(a) THEN (IF carry = 0 THEN <<>> ELSE <<carry>>)
    ELSE LET t == a[i] * d + carry
         IN  <<t % 10000>> \o MulLimbFrom(a, d, i + 1, t \div 10000)
MulLimb(a, d) == Norm(MulLimbFrom(a, d, 1, 0))

\* a times the limbs of b from b[i] up: a * b[i] plus 10000 times the rest
RECURSIVE MulFrom(_, _, _)
MulFrom(a, b, i) ==
    IF i > Len(b) THEN <<>>
    ELSE LET rest == MulFrom(a, b, i + 1)
         IN  IF rest = <<>> THEN MulLimb(a, b[i])
             ELSE AddN(MulLimb(a, b[i]), <<0>> \o rest)
MulN(a, b) == IF a = <<>> \/ b = <<>> THEN <<>> ELSE MulFrom(a, b, 1)

\* one decimal digit more of a quotient limb: the largest base + step * d,
\* d in 0..9, with b * (base + step * d) <= cur (given b * base <= cur)
QuotientDigit(cur, b, base, step) ==
    base + step * Cardinality({d \in 1..9 : Cmp(MulLimb(b, base + step * d), cur) <= 0})

\* the five leading decimal digits of b, a number of two limbs or more, and
\* the digits of cur that stand above the same place, as integers
LeadOf(b) == 10 * b[Len(b)] + (b[Len(b) - 1] \div 1000)
LeadAbove(cur, b) ==
    100000 * Limb(cur, Len(b) + 1) + 10 * Limb(cur, Len(b))
        + (Limb(cur, Len(b) - 1) \div 1000)

\* the largest q with b * q <= cur, for cur < 10000 * b.  A divisor of one
\* limb divides the at most two limbs of cur as integers.  Else q lies
\* between the quotients of the leading digits of cur by those of b plus one
\* and by those of b: of a few candidates the largest that fits is taken, of
\* many q is found digit by digit
QuotientLimb(cur, b) ==
    IF Len(b) = 1 THEN (Limb(cur, 1) + 10000 * Limb(cur, 2)) \div b[1]
    ELSE IF (LeadAbove(cur, b) \div LeadOf(b)) - (LeadAbove(cur, b) \div (LeadOf(b) + 1)) <= 4
    THEN (LeadAbove(cur, b) \div (LeadOf(b) + 1))
            + Cardinality({q \in ((LeadAbove(cur, b) \div (LeadOf(b) + 1)) + 1)
                                    ..(LeadAbove(cur, b) \div LeadOf(b)) :
                              q <= 9999 /\ Cmp(MulLimb(b, q), cur) <= 0})
    ELSE QuotientDigit(cur, b,
            QuotientDigit(cur, b,
                QuotientDigit(cur, b, QuotientDigit(cur, b, 0, 1000), 100), 10), 1)

\* one step of the long division: the quotient limb q of cur goes before the
\* quotient limbs found so far, and cur - b * q is the remainder
DivStep(cur, b, q, above_q) ==
    [q |-> <<q>> \o above_q, r |-> SubN(Norm(cur), MulLimb(b, q))]

\* long division by b # 0 of the limbs of a from the most significant one
\* down to a[i]: the quotient limbs and the remainder
RECURSIVE DivFrom(_, _, _)
DivFrom(a, i, b) ==
    IF i > Len(a) THEN [q |-> <<>>, r |-> <<>>]
    ELSE LET above == DivFrom(a, i + 1, b)
         IN  IF above.r = <<>> /\ a[i] = 0
             THEN [q |-> <<0>> \o above.q, r |-> <<>>]
             ELSE DivStep(<<a[i]>> \o above.r, b,
                          QuotientLimb(<<a[i]>> \o above.r, b), above.q)

QuotRem(d) == [q |-> Norm(d.q), r |-> d.r]

\* a / b and a % b, for b # 0
DivModN(a, b) == QuotRem(DivFrom(a, 1, b))

One == <<1>>
\* u128::MAX = 2^128 - 1
U128Max == NatOfText("340282366920938463463374607431768211455")
TwoPow128 == AddN(U128Max, One)
\* 2^32 and 2^16
TwoPow32 == NatOfText("4294967296")
TwoPow16 == NatOfText("65536")

\* the value modulo 2^128: what wrapping arithmetic keeps
Wrap(n) == IF Cmp(n, U128Max) <= 0 THEN n ELSE DivModN(n, TwoPow128).r

\* next as u32: the low 32 bits
AsU32(n) == IF Cmp(n, TwoPow32) < 0 THEN n ELSE DivModN(n, TwoPow32).r

\* a natural number below 10000 * 10000 as an integer
IntOf(n) == Limb(n, 1) + 10000 * Limb(n, 2)

\* a value as the result of checked arithmetic: overflow above u128::MAX
Checked(n) ==
    IF Cmp(n, U128Max) > 0 THEN [overflow |-> TRUE, val |-> <<>>]
    ELSE [overflow |-> FALSE, val |-> n]

\* a^k from sq = (a^(k div 2))^2
PowFitsStep(sq, a, k) ==
    IF Cmp(sq, U128Max) > 0 THEN [overflow |-> TRUE, val |-> <<>>]
    ELSE IF k % 2 = 0 THEN [overflow |-> FALSE, val |-> sq]
    ELSE Checked(MulN(sq, a))

\* a^k by squaring while it fits a u128, for a >= 2 (every partial power is
\* at most the power itself)
RECURSIVE PowFits(_, _)
PowFits(a, k) ==
    IF k = 0 THEN [overflow |-> FALSE, val |-> One]
    ELSE LET half == PowFits(a, k \div 2)
         IN  IF half.overflow THEN half
             ELSE PowFitsStep(MulN(half.val, half.val), a, k)

\* u128::pow with overflow checks, e a u32: the power, or overflow.  0 and 1
\* never overflow; a >= 2 overflows from the exponent 128 on
PowChecked(a, e) ==
    IF e = <<>> THEN [overflow |-> FALSE, val |-> One]
    ELSE IF Cmp(a, One) <= 0 THEN [overflow |-> FALSE, val |-> a]
    ELSE IF Cmp(e, <<128>>) >= 0 THEN [overflow |-> TRUE, val |-> <<>>]
    ELSE PowFits(a, IntOf(e))

\* x * y modulo 2^128
WrappingMul(x, y) == IF x = <<>> \/ y = <<>> THEN <<>> ELSE Wrap(MulN(x, y))

\* a^k modulo 2^128 from sq = (a^(k div 2))^2
PowWrappingStep(sq, a, k) == IF k % 2 = 0 THEN sq ELSE WrappingMul(sq, a)

\* a^k modulo 2^128 by squaring, k below 2^16
RECURSIVE PowIntWrapping(_, _)
PowIntWrapping(a, k) ==
    IF k = 0 THEN One
    ELSE LET half == PowIntWrapping(a, k \div 2)
         IN  IF half = <<>> THEN <<>>
             ELSE PowWrappingStep(WrappingMul(half, half), a, k)

\* x squared n times, modulo 2^128
RECURSIVE RepSquare(_, _)
RepSquare(x, n) ==
    IF n = 0 \/ x = <<>> THEN x
    ELSE IF n = 1 THEN WrappingMul(x, x)
    ELSE RepSquare(RepSquare(x, n \div 2), n - (n \div 2))

\* a^e modulo 2^128 for e = parts.q * 2^16 + parts.r, as
\* (a^parts.q)^(2^16) * a^parts.r
PowSplit(a, parts) ==
    WrappingMul(RepSquare(PowIntWrapping(a, IntOf(parts.q)), 16),
                PowIntWrapping(a, IntOf(parts.r)))

\* u128::pow without overflow checks, e a u32: a^e modulo 2^128
PowWrapping(a, e) == PowSplit(a, DivModN(e, TwoPow16))

\* str::parse::<u128> on the text of a Number token (which holds no sign):
\* Ok for a non-empty text of digits writing a value up to u128::MAX
ParseU128(text) ==
    IF Len(text) = 0 \/ \E i \in 0..(Len(text) - 1) : CharAt(text, i) \notin Digits
    THEN [ok |-> FALSE, val |-> <<>>]
    ELSE IF Cmp(NatOfText(text), U128Max) > 0 THEN [ok |-> FALSE, val |-> <<>>]
    ELSE [ok |-> TRUE, val |-> NatOfText(text)]

\* the result of one fold step: the new value, or a panic
Folded(n) == [panic |-> FALSE, val |-> n]
FoldPanic == [panic |-> TRUE, val |-> <<>>]

\* an arithmetic result on u128: above u128::MAX it panics in a build with
\* overflow checks (debug) and wraps in a build without (release)
Overflowing(n, checks) ==
    IF Cmp(n, U128Max) <= 0 THEN Folded(n)
    ELSE IF checks THEN FoldPanic
    ELSE Folded(Wrap(n))

\* a checked result as the result of a fold step
OrPanic(pw) == IF pw.overflow THEN FoldPanic ELSE Folded(pw.val)

\* the match on op of expect_value (lines 310-318), on two parsed operands
ApplyOperator(op, original, next, checks) ==
    CASE op = "+" -> Overflowing(AddN(original, next), checks)
      [] op = "-" ->
            IF Cmp(original, next) >= 0 THEN Folded(SubN(original, next))
            ELSE IF checks THEN FoldPanic
            ELSE Folded(SubN(AddN(original, TwoPow128), next))
      [] op = "*" -> Overflowing(MulN(original, next), checks)
      [] op = "/" ->
            IF next = <<>> THEN FoldPanic ELSE Folded(DivModN(original, next).q)
      [] op = "%" ->
            IF next = <<>> THEN FoldPanic ELSE Folded(DivModN(original, next).r)
      [] op = "^" ->
            IF checks THEN OrPanic(PowChecked(original, AsU32(next)))
            ELSE Folded(PowWrapping(original, AsU32(next)))
      [] OTHER -> FoldPanic

(***************************************************************************)
(* parser.rs: Parser, Parser::expect_value.  The Parser owns its Lexer;    *)
(* panicked records that a call on the lexer aborted the process.          *)
(***************************************************************************)
\* ASTNode::Number, ASTNode::StringLiteral, ASTNode::Array
NumberNode(value) == [kind |-> "Number", value |-> value]
StringLiteral(value) == [kind |-> "StringLiteral", value |-> value]
ArrayNode(array) == [kind |-> "Array", value |-> array]
\* no node: expect_value has not returned
NoNode == [kind |-> "None", value |-> ""]

\* the parser after the lexer's call r: with the token it returned, or panicked
Advanced(p, r) ==
    [lexer |-> r.lx,
     current_token |-> IF r.panic THEN p.current_token ELSE r.tok,
     panicked |-> r.panic]

\* Parser::next_token: current_token becomes the lexer's next token
Parser_next_token(p) ==
    IF p.panicked THEN p ELSE Advanced(p, next_token(p.lexer, 1))

\* Parser::new: current_token starts as Eof and the first token is loaded
Parser_new(lexer) ==
    Parser_next_token([lexer |-> <<lexer>>, current_token |-> Eof, panicked |-> FALSE])

\* how a call of expect_value ends: it returns a node, it panics, or its loop
\* never ends
Returned(p, n) == [parser |-> p, node |-> n, outcome |-> "done"]
Panicked(p) == [parser |-> p, node |-> NoNode, outcome |-> "panic"]
Diverged(p) == [parser |-> p, node |-> NoNode, outcome |-> "diverged"]

\* the end of the array (line 297): the parser moves past ']' and the array
\* is returned
ArrayEnd(q, array) ==
    IF q.panicked THEN Panicked(q) ELSE Returned(q, ArrayNode(array))

\* the array loop of expect_value (lines 291-296): every token up to ']' is
\* consumed and the strings among them are kept.  At the end of the input
\* next_token returns Eof again and again: the loop never ends
RECURSIVE ArrayLoop(_, _)
ArrayLoop(p, array) ==
    IF p.panicked THEN Panicked(p)
    ELSE IF p.current_token.kind = "RightBracket"
    THEN ArrayEnd(Parser_next_token(p), array)
    ELSE IF p.current_token = Eof THEN Diverged(p)
    ELSE ArrayLoop(Parser_next_token(p),
                   IF p.current_token.kind = "String"
                   THEN Append(array, StringLiteral(p.current_token.text))
                   ELSE array)

RECURSIVE FoldLoop(_, _, _)

\* a slip in the fold loop: what follows an operator is folded first, so the
\* expression is taken from right to left
RECURSIVE FoldRight(_, _, _)
FoldRight(p, value, checks) ==
    IF p.panicked THEN Panicked(p)
    ELSE IF p.current_token.kind # "Operator" THEN Returned(p, NumberNode(value))
    ELSE LET op == p.current_token.text
             q == Parser_next_token(p)
             rest == FoldRight(Parser_next_token(q), q.current_token.text, checks)
             original == ParseU128(value)
             next == ParseU128(rest.node.value)
             r == ApplyOperator(op, original.val, next.val, checks)
         IN  IF q.panicked \/ q.current_token.kind # "Number" THEN Panicked(q)
             ELSE IF rest.outcome # "done" THEN rest
             ELSE IF ~original.ok \/ ~next.ok \/ r.panic THEN Panicked(rest.parser)
             ELSE Returned(rest.parser, NumberNode(to_string(r.val)))

\* lines 319-320: the result r of the operator becomes the value (its decimal
\* text), the parser moves past the operand and the loop goes on
FoldAssign(q, r, checks) ==
    IF r.panic THEN Panicked(q)
    ELSE FoldLoop(Parser_next_token(q), to_string(r.val), checks)

\* lines 308-318: both texts are parsed as u128 (unwrap panics on a text that
\* is none) and the operator is applied
FoldParsed(q, op, original, next, checks) ==
    IF ~original.ok \/ ~next.ok THEN Panicked(q)
    ELSE FoldAssign(q, ApplyOperator(op, original.val, next.val, checks), checks)

\* lines 306-322, q being the parser past the operator op: the current token
\* must be a Number
FoldOperand(q, op, value, checks) ==
    IF q.panicked \/ q.current_token.kind # "Number" THEN Panicked(q)
    ELSE FoldParsed(q, op, ParseU128(value), ParseU128(q.current_token.text), checks)

\* the fold loop of expect_value (lines 304-323), value being the text folded
\* so far: while the current token is an operator, the parser moves past it
\* and the operand after it is folded into the value
FoldLoop(p, value, checks) ==
    IF p.panicked THEN Panicked(p)
    ELSE IF p.current_token.kind # "Operator" THEN Returned(p, NumberNode(value))
    ELSE FoldOperand(Parser_next_token(p), p.current_token.text, value, checks)

\* Parser::expect_value: an array of strings, a folded number, or a string
\* literal (returned without moving past it); any other token panics
expect_value(p, checks) ==
    IF p.panicked THEN Panicked(p)
    ELSE IF p.current_token.kind = "LeftBracket"
    THEN ArrayLoop(Parser_next_token(p), <<>>)
    ELSE IF p.current_token.kind = "Number"
    THEN FoldLoop(Parser_next_token(p), p.current_token.text, checks)
    ELSE IF p.current_token.kind = "String"
    THEN Returned(p, StringLiteral(p.current_token.text))
    ELSE Panicked(p)

\* ---- the value expressions tried
ValueNumbers == {"2", "3", "10"}
ValueOperators == {"+", "-", "*", "/", "%", "^"}

\* the expressions n0 op1 n1 ... opk nk with exactly k operators
RECURSIVE Expressions(_)
Expressions(k) ==
    IF k = 0 THEN ValueNumbers
    ELSE {e \o " " \o op \o " " \o n :
            e \in Expressions(k - 1), op \in ValueOperators, n \in ValueNumbers}

\* values at the limits of a u128 and of the fold, arrays, strings, and what
\* is no value
ExtraValues ==
    {"10-3*2", "10 - 3 * 2 ;", "10e12 * 5", "2 ^ 10 % 7 ;", "0 - 1", "5 / 0", "5 % 0",
     "2 ^ 127", "2 ^ 128", "2 ^ 4294967297", "3 ^ 100",
     "340282366920938463463374607431768211455 + 1",
     "340282366920938463463374607431768211455 * 340282366920938463463374607431768211455",
     "340282366920938463463374607431768211456", "1.5 + 2", "7 = 3", "7 +", "7 + ;",
     "$include \"b\" + 3", "3 + $include \"b\"",
     "[\"a\", \"b\"];", "[]", "[\"a\"", "\"s\";", ";", ""}

ValueTexts == (UNION {Expressions(k) : k \in 0..MaxOps}) \cup ExtraValues

ValueIdle ==
    /\ parser = [lexer |-> <<>>, current_token |-> Eof, panicked |-> FALSE]
    /\ node = NoNode
    /\ pstatus = "idle"
    /\ overflow_checks = FALSE
    /\ root = <<>>

\* Parser::new on a lexer over a value expression, in either build
ValueInit ==
    /\ parser \in {Parser_new(NewLexer(text)) : text \in ValueTexts}
    /\ node = NoNode
    /\ pstatus = "ready"
    /\ overflow_checks \in BOOLEAN
    /\ root = <<>>

\* one call of expect_value
ExpectValue ==
    /\ pstatus = "ready"
    /\ LET r == expect_value(parser, overflow_checks)
       IN  /\ parser' = r.parser
           /\ node' = r.node
           /\ pstatus' = r.outcome
    /\ UNCHANGED <<overflow_checks, root>>
    /\ UNCHANGED <<codecVars, ctxVars, lexVars>>

ValueNext == ExpectValue

(***************************************************************************)
(* Parser::parse and the block parsers.  A parse function under way is     *)
(* [parser, outcome, vals]: the parser, "ok" until a panic ("panic") or a  *)
(* loop that never ends ("diverged"), and the values of the locals and     *)
(* results computed so far, the newest last.                               *)
(***************************************************************************)
Define(version, schemes) ==
    [kind |-> "Define", value |-> [version |-> version, schemes |-> schemes]]
Schemes(list) == [kind |-> "Schemes", value |-> list]
Scheme(preset, params) ==
    [kind |-> "Scheme", value |-> [preset |-> preset, params |-> params]]
State(list) == [kind |-> "State", value |-> list]
StateVariableDeclaration(name, var_type) ==
    [kind |-> "StateVariableDeclaration",
     value |-> [name |-> name, var_type |-> var_type]]
Consts(list) == [kind |-> "Consts", value |-> list]
ConstDeclaration(name, var_type, value) ==
    [kind |-> "ConstDeclaration",
     value |-> [name |-> name, var_type |-> var_type, value |-> value]]
Procedures(list) == [kind |-> "Procedures", value |-> list]
Root(list) == [kind |-> "Root", value |-> list]

Start(p) ==
    [parser |-> p, outcome |-> IF p.panicked THEN "panic" ELSE "ok", vals |-> <<>>]
Current(ps) == ps.parser.current_token
Fail(ps) == [ps EXCEPT !.outcome = "panic"]
Forever(ps) == [ps EXCEPT !.outcome = "diverged"]
Push(ps, v) == [ps EXCEPT !.vals = Append(@, v)]
\* the values but the newest n
Below(ps, n) == SubSeq(ps.vals, 1, Len(ps.vals) - n)
\* the n-th newest value
Nth(ps, n) == ps.vals[Len(ps.vals) + 1 - n]
\* the newest n values give way to v
Reduce(ps, n, v) ==
    IF ps.outcome # "ok" THEN ps ELSE [ps EXCEPT !.vals = Append(Below(ps, n), v)]

\* self.next_token() inside a parse function
Lexed(ps, p) ==
    [parser |-> p, outcome |-> IF p.panicked THEN "panic" ELSE "ok", vals |-> ps.vals]
Step(ps) ==
    IF ps.outcome # "ok" THEN ps ELSE Lexed(ps, Parser_next_token(ps.parser))

\* Parser::expect_string: the string of a String token, then the next token
expect_string(ps) ==
    IF ps.outcome # "ok" THEN ps
    ELSE IF Current(ps).kind = "String" THEN Push(Step(ps), Current(ps).text)
    ELSE Fail(ps)

\* Parser::expect_identifier
expect_identifier(ps) ==
    IF ps.outcome # "ok" THEN ps
    ELSE IF Current(ps).kind = "Identifier" THEN Push(Step(ps), Current(ps).text)
    ELSE Fail(ps)

\* Parser::expect_token
expect_token(ps, expected) ==
    IF ps.outcome # "ok" THEN ps
    ELSE IF Current(ps) # expected THEN Fail(ps)
    ELSE Step(ps)

\* Parser::expect_operator
expect_operator(ps, expected_op) ==
    IF ps.outcome # "ok" THEN ps
    ELSE IF Current(ps).kind = "Operator"
    THEN IF Current(ps).text = expected_op THEN Step(ps) ELSE Fail(ps)
    ELSE Fail(ps)

\* Parser::expect_variable_type
expect_variable_type(ps) ==
    IF ps.outcome # "ok" THEN ps
    ELSE IF Current(ps).kind \in {"Address", "U128", "U8", "Bool"}
    THEN Push(Step(ps), Current(ps).kind)
    ELSE Fail(ps)

\* self.expect_value() inside a parse function
Valued(ps, r) ==
    [parser |-> r.parser,
     outcome |-> IF r.outcome = "done" THEN "ok" ELSE r.outcome,
     vals |-> Append(ps.vals, r.node)]
Value(ps, checks) ==
    IF ps.outcome # "ok" THEN ps ELSE Valued(ps, expect_value(ps.parser, checks))

\* Parser::parse_version: the version string
parse_version(ps) == expect_string(expect_operator(Step(ps), "="))

\* Parser::parse_preset: the preset string
parse_preset(ps) ==
    expect_string(expect_operator(expect_token(ps, Tok("Identifier", "preset")), "="))

\* params.push((id, value)), id and value being the newest values above params
PushParam(ps) ==
    IF ps.outcome # "ok" THEN ps
    ELSE Reduce(ps, 3, Append(Nth(ps, 3), <<Nth(ps, 2), Nth(ps, 1)>>))

\* the while loop of parse_params, params being the newest value
RECURSIVE ParamsLoop(_, _)
ParamsLoop(ps, checks) ==
    IF ps.outcome # "ok" THEN ps
    ELSE IF Current(ps).kind \in {"RightBrace", "Eof"} THEN ps
    ELSE ParamsLoop(PushParam(Value(expect_operator(expect_identifier(ps), "="),
                                    checks)),
                    checks)

\* Parser::parse_params: the list of (id, value); the closing '}' stays current
parse_params(ps, checks) ==
    ParamsLoop(Push(expect_token(expect_operator(expect_token(ps,
                        Tok("Identifier", "params")), "="),
                    Tok("LeftBrace", "")), <<>>),
               checks)

\* Parser::parse_scheme: Schemes of the one Scheme with the preset and params
MakeScheme(ps) ==
    IF ps.outcome # "ok" THEN ps
    ELSE Reduce(ps, 2, Schemes(<<Scheme(Nth(ps, 2), Nth(ps, 1))>>))
parse_scheme(ps, checks) == MakeScheme(parse_params(parse_preset(ps), checks))

\* after parse_scheme in parse_schemes: a panic unless '}' is current,
\* then schemes.push of the scheme
SchemeEnd(ps) ==
    IF ps.outcome # "ok" THEN ps
    ELSE IF Current(ps).kind # "RightBrace" THEN Fail(ps)
    ELSE Reduce(ps, 2, Append(Nth(ps, 2), Nth(ps, 1)))

\* the while loop of parse_schemes, schemes being the newest value
RECURSIVE SchemesLoop(_, _)
SchemesLoop(ps, checks) ==
    IF ps.outcome # "ok" THEN ps
    ELSE IF Current(ps).kind \in {"RightBracket", "Eof"} THEN ps
    ELSE IF Current(ps).kind = "LeftBrace"
    THEN SchemesLoop(Step(SchemeEnd(parse_scheme(Step(ps), checks))), checks)
    ELSE SchemesLoop(Step(ps), checks)

\* Parser::parse_schemes: the list of schemes
parse_schemes(ps, checks) ==
    expect_token(SchemesLoop(Push(expect_token(expect_operator(Step(ps), "="),
                                               Tok("LeftBracket", "")), <<>>),
                             checks),
                 Tok("RightBracket", ""))

\* version = Some(...) and schemes = ... in parse_define, version and schemes
\* being the two values below the newest
SetVersion(ps) ==
    IF ps.outcome # "ok" THEN ps
    ELSE [ps EXCEPT !.vals = Below(ps, 3) \o <<<<Nth(ps, 1)>>, Nth(ps, 2)>>]
SetSchemes(ps) ==
    IF ps.outcome # "ok" THEN ps
    ELSE [ps EXCEPT !.vals = Below(ps, 3) \o <<Nth(ps, 3), Nth(ps, 1)>>]

\* the loop of parse_define: it ends at '}' alone; at Eof the arm for any
\* other token calls next_token, which returns Eof again, without end
RECURSIVE DefineLoop(_, _)
DefineLoop(ps, checks) ==
    IF ps.outcome # "ok" THEN ps
    ELSE IF Current(ps).kind = "Version"
    THEN DefineLoop(SetVersion(parse_version(ps)), checks)
    ELSE IF Current(ps).kind = "Schemes"
    THEN DefineLoop(SetSchemes(parse_schemes(ps, checks)), checks)
    ELSE IF Current(ps).kind = "RightBrace" THEN ps
    ELSE IF Current(ps).kind = "Eof" THEN Forever(ps)
    ELSE DefineLoop(Step(ps), checks)

\* Parser::parse_define; version is <<>> for None, <<v>> for Some(v)
MakeDefine(ps) ==
    IF ps.outcome # "ok" THEN ps
    ELSE Reduce(ps, 2, Define(Nth(ps, 2), Nth(ps, 1)))
parse_define(ps, checks) ==
    MakeDefine(Step(DefineLoop(Push(Push(expect_token(Step(ps), Tok("LeftBrace", "")),
                                         <<>>), <<>>),
                               checks)))

\* state_variables.push(StateVariableDeclaration {..}), then the ';'
PushStateVariable(ps) ==
    IF ps.outcome # "ok" THEN ps
    ELSE Reduce(ps, 3, Append(Nth(ps, 3), StateVariableDeclaration(Nth(ps, 1), Nth(ps, 2))))

\* the while loop of parse_state_block
RECURSIVE StateLoop(_)
StateLoop(ps) ==
    IF ps.outcome # "ok" THEN ps
    ELSE IF Current(ps).kind \in {"RightBrace", "Eof"} THEN ps
    ELSE StateLoop(expect_token(PushStateVariable(expect_identifier(
                                    expect_variable_type(ps))),
                                Tok("SemiColon", "")))

\* Parser::parse_state_block
MakeState(ps) == IF ps.outcome # "ok" THEN ps ELSE Reduce(ps, 1, State(Nth(ps, 1)))
parse_state_block(ps) ==
    MakeState(expect_token(StateLoop(Push(expect_token(expect_token(ps,
                                              Tok("State", "")),
                                          Tok("LeftBrace", "")), <<>>)),
                           Tok("RightBrace", "")))

\* const_variables.push(ConstDeclaration {..})
PushConst(ps) ==
    IF ps.outcome # "ok" THEN ps
    ELSE Reduce(ps, 4, Append(Nth(ps, 4),
                              ConstDeclaration(Nth(ps, 2), Nth(ps, 3), Nth(ps, 1))))

\* the while loop of parse_consts_block
RECURSIVE ConstsLoop(_, _)
ConstsLoop(ps, checks) ==
    IF ps.outcome # "ok" THEN ps
    ELSE IF Current(ps).kind \in {"RightBrace", "Eof"} THEN ps
    ELSE ConstsLoop(expect_token(PushConst(Value(expect_operator(expect_identifier(
                                     expect_variable_type(ps)), "="), checks)),
                                 Tok("SemiColon", "")),
                    checks)

\* Parser::parse_consts_block
MakeConsts(ps) == IF ps.outcome # "ok" THEN ps ELSE Reduce(ps, 1, Consts(Nth(ps, 1)))
parse_consts_block(ps, checks) ==
    MakeConsts(expect_token(ConstsLoop(Push(expect_token(expect_token(ps,
                                                Tok("Consts", "")),
                                            Tok("LeftBrace", "")), <<>>),
                                       checks),
                            Tok("RightBrace", "")))

\* Parser::parse_procedures: an empty Procedures node; no token is consumed
parse_procedures(ps) == Push(ps, Procedures(<<>>))

\* one pass of the while loop of parse: the arm of the current token
ParseArm(p, checks) ==
    CASE p.current_token.kind = "Define" -> parse_define(Start(p), checks)
      [] p.current_token.kind = "State" -> parse_state_block(Start(p))
      [] p.current_token.kind = "Consts" -> parse_consts_block(Start(p), checks)
      [] p.current_token.kind = "Procedures" -> parse_procedures(Start(p))
      [] OTHER -> Step(Start(p))

\* ---- the source texts parsed
\* the deepest root followed
MaxRoot == 4

\* $define blocks: as in test_define_parsing, with a string and an array
\* parameter, without schemes, and cut before the end
DefineBlocks ==
    {"$define { version = \"1\" }",
     "$define { version = \"1\" schemes = [ { preset = \"t\" params = { a = 12 total_supply = 10e12 * 5 } } ] }",
     "$define { schemes = [ { preset = \"t\" params = { k = \"s\" } } ] }",
     "$define { schemes = [ { preset = \"t\" params = { k = \"s\" j = 1 } } ] }",
     "$define { schemes = [ { preset = \"t\" params = { name = [\"a\", \"b\"] } } ] }",
     "$define { schemes = [ { preset = \"t\" params = { n = [\"a\"",
     "$define { version = \"1\"",
     "$define {"}

\* $state and $consts blocks: as in test_define_parsing, empty, with a string,
\* an array and an overflowing value, and cut before the end
OtherBlocks ==
    {"$state { address creator; }",
     "$state { }",
     "$state { u8 x }",
     "$consts { u128 constant = 10; }",
     "$consts { u8 name = \"s\"; }",
     "$consts { u8 a = [\"x\"]; bool b = 1; }",
     "$consts { u128 a = 0 - 1; }",
     "$consts { u8 x = [\"a\"",
     "$procedures",
     "$procedures { }",
     "x ;",
     ""}

\* the input of test_define_parsing
TestDefineInput ==
    "\n$define {\n  version = \"^0.1.0\"\n  schemes = [\n    {\n      preset = \"token@0.1.0\"\n"
        \o "      params = {\n        decimals = 12\n        total_supply = 10e12 * 5\n"
        \o "        name = [\"coolium\", \"COOL\"]\n      }\n    }\n  ]\n}\n\n"
        \o "$state {\n    address creator;\n}\n\n$consts {\n    u128 constant = 10;\n}\n"

ParseTexts ==
    {first \o " " \o second :
        first \in DefineBlocks \cup OtherBlocks, second \in DefineBlocks \cup OtherBlocks}
        \cup {TestDefineInput}

\* Parser::new on a lexer over a source text, then parse() is called
ParseInit ==
    /\ parser \in {Parser_new(NewLexer(text)) : text \in ParseTexts}
    /\ node = NoNode
    /\ pstatus = "parsing"
    /\ overflow_checks \in BOOLEAN
    /\ root = <<>>

\* the pass r of parse's loop is over: what it pushed is in root
Passed(r) ==
    /\ parser' = r.parser
    /\ root' = IF r.outcome = "ok" THEN root \o r.vals ELSE root
    /\ pstatus' = IF r.outcome = "ok" THEN "parsing" ELSE r.outcome

\* one pass of the while loop of parse, followed while root has fewer than
\* MaxRoot nodes
ParsePass ==
    /\ pstatus = "parsing"
    /\ parser.current_token # Eof
    /\ Len(root) < MaxRoot
    /\ Passed(ParseArm(parser, overflow_checks))
    /\ UNCHANGED <<node, overflow_checks>>
    /\ UNCHANGED <<codecVars, ctxVars, lexVars>>

\* the loop of parse ends at Eof: parse returns Root(root)
ParseReturn ==
    /\ pstatus = "parsing"
    /\ parser.current_token = Eof
    /\ node' = Root(root)
    /\ pstatus' = "returned"
    /\ UNCHANGED <<parser, overflow_checks, root>>
    /\ UNCHANGED <<codecVars, ctxVars, lexVars>>

ParseNext == ParsePass \/ ParseReturn

(***************************************************************************)
(* The specifications.                                                     *)
(***************************************************************************)
InitCodec == CodecInit /\ CtxIdle /\ LexIdle /\ ValueIdle
SpecCodec == InitCodec /\ [][CodecNext]_vars

InitCtx == CtxInit /\ CodecIdle /\ LexIdle /\ ValueIdle
SpecCtx == InitCtx /\ [][CtxNext]_vars

InitLex == LexInit /\ CodecIdle /\ CtxIdle /\ ValueIdle
SpecLex == InitLex /\ [][LexNext]_vars

InitParse == ParseInit /\ CodecIdle /\ CtxIdle /\ LexIdle
SpecParse == InitParse /\ [][ParseNext]_vars

\* the caller calls next_token again and again: weak fairness of CycleNext,
\* WF_vars(CycleNext), written out with Calling for ENABLED <<CycleNext>>_vars
\* (next_token is total and every call changes out or lstatus, so a call is
\* enabled exactly where Calling holds)
Calling == Len(lx) < MaxDepth /\ lstatus = "running"
CallsGoOn == []<>(~Calling) \/ []<><<CycleNext>>_vars
InitCycle == CycleInit /\ CodecIdle /\ CtxIdle /\ ValueIdle
SpecCycle == InitCycle /\ [][CycleNext]_vars /\ CallsGoOn

InitValue == ValueInit /\ CodecIdle /\ CtxIdle /\ LexIdle
SpecValue == InitValue /\ [][ValueNext]_vars

(***************************************************************************)
(* The opcode codec's properties.                                          *)
(***************************************************************************)
\* the operand count the instruction set gives each assigned opcode byte
ClaimArity(code) ==
    IF code \in {6, 14} THEN 1
    ELSE IF code \in {12, 13} THEN 3
    ELSE IF code = 15 THEN 0
    ELSE 2

Assigned == 1..15

\* C1: for each of the 15 assigned opcode bytes and an operand slice of the
\* opcode's arity, decode succeeds, the instruction carries the operand bytes
\* unchanged and in order, and encode of the instruction returns the byte.
C1_RoundTrip ==
    (cpc \in {"decoded", "encoded"} /\ hex \in Assigned
        /\ Len(operands) = ClaimArity(hex))
    => /\ decoded.ok
       /\ decoded.args = operands
       /\ cpc = "encoded" => encoded = hex

\* a three-operand opcode with distinct operands went through decode and encode
C1_Witness ==
    /\ cpc = "encoded"
    /\ hex = 12
    /\ Len(operands) = 3
    /\ operands[1] # operands[3]
    /\ decoded.args = operands
    /\ encoded = 12

\* C2: for each of the 15 opcodes, decode with an operand slice whose length
\* differs from the opcode's arity fails with the operand-arity-mismatch
\* condition carrying (expected arity, actual length).
C2_ArityMismatch ==
    (cpc \in {"decoded", "encoded"} /\ hex \in Assigned
        /\ Len(operands) # ClaimArity(hex))
    => /\ ~decoded.ok
       /\ decoded.err = "OperandLenghtMismatch"
       /\ decoded.e1 = ClaimArity(hex)
       /\ decoded.e2 = Len(operands)

\* C3: decode of a byte outside the 15 assigned values fails with the
\* unknown-opcode condition carrying that byte, whatever the operand slice.
C3_UnknownOpcode ==
    (cpc \in {"decoded", "encoded"} /\ hex \notin Assigned)
    => /\ ~decoded.ok
       /\ decoded.err = "InvalidOpcode"
       /\ decoded.e1 = hex

\* byte 0x10, the first unassigned one, was decoded with a non-empty slice
C3_Witness ==
    /\ cpc = "decoded"
    /\ hex = 16
    /\ Len(operands) = 2
    /\ decoded.err = "InvalidOpcode"

(***************************************************************************)
(* The execution context's properties.  ret is the last call, old_state    *)
(* and old_memory the context that call was made on.                       *)
(***************************************************************************)
\* C4: the register file follows the reference sequence: allocate appends the
\* value and returns the length before the push; a successful deallocate(i)
\* leaves every register below i in place and moves every register above i
\* down by one; clear empties it; no other call changes it.
C4_RegisterFile ==
    /\ ret.op = "malloc" =>
          /\ ret.result.ok
          /\ ret.result.index = Len(old_memory)
          /\ Len(memory) = Len(old_memory) + 1
          /\ memory[Len(memory)] = ret.arg
          /\ \A j \in 1..Len(old_memory) : memory[j] = old_memory[j]
    /\ (ret.op = "delloc" /\ ret.index < Len(old_memory)) =>
          /\ ret.result.ok
          /\ Len(memory) = Len(old_memory) - 1
          /\ \A j \in 0..(Len(memory) - 1) :
                memory[j + 1] = IF j < ret.index THEN old_memory[j + 1]
                                ELSE old_memory[j + 2]
    /\ ret.op = "clear_memory" => memory = <<>>
    /\ ret.op \in {"new", "get_state", "set_state"} => memory = old_memory

\* allocate(a), allocate(b) with a # b, then deallocate(0): index 0 holds b
C4_Witness ==
    /\ ret.op = "delloc"
    /\ ret.index = 0
    /\ ret.result.ok
    /\ Len(old_memory) = 2
    /\ old_memory[1] # old_memory[2]
    /\ memory = <<old_memory[2]>>

\* C5: deallocate(index) with index >= the register file's length fails with
\* the index-out-of-bounds condition carrying (index, length), as a value, and
\* leaves the register file and the state mapping as they were.
C5_OutOfBounds ==
    (ret.op = "delloc" /\ ret.index >= Len(old_memory))
    => /\ ~ret.result.ok
       /\ ret.result.err = "OutOfBounds"
       /\ ret.result.e1 = ret.index
       /\ ret.result.e2 = Len(old_memory)
       /\ memory = old_memory
       /\ state = old_state

\* deallocate past the end of a file that holds registers
C5_Witness ==
    /\ ret.op = "delloc"
    /\ Len(old_memory) = 2
    /\ ret.index = 3
    /\ ~ret.result.ok
    /\ state # EmptyMap

\* C6: get_state(name) returns the value of the most recent set_state on the
\* name (or the value the context was built with); set_state succeeds,
\* overwrites whatever the entry held and changes no other key; get_state on a
\* name never set and not in the initial state fails with the unknown-state-key
\* condition and changes nothing.
C6_StateReadsLastWrite ==
    /\ ret.op = "get_state" =>
          /\ IF ret.key \in DOMAIN last_set
             THEN ret.result.ok /\ ret.result.value = last_set[ret.key]
             ELSE /\ ~ret.result.ok
                  /\ ret.result.err = "InvalidStateRegister"
                  /\ ret.result.ekey = ret.key
          /\ state = old_state
          /\ memory = old_memory
    /\ ret.op = "set_state" =>
          /\ ret.result.ok
          /\ ret.key \in DOMAIN state
          /\ state[ret.key] = ret.arg
          /\ \A k \in Keys \ {ret.key} :
                /\ k \in DOMAIN state <=> k \in DOMAIN old_state
                /\ k \in DOMAIN state => state[k] = old_state[k]

\* a set_state that overwrote a value of another type
C6_Witness ==
    /\ ret.op = "set_state"
    /\ ret.key \in DOMAIN old_state
    /\ old_state[ret.key].tag # ret.arg.tag
    /\ state[ret.key] = ret.arg
    /\ "missing" \notin DOMAIN last_set

\* C7: the set of state keys never shrinks; only set_state changes the state
\* (allocate, deallocate and clear leave every key and value as it was); clear
\* leaves the register file empty whatever it held.
C7_StateFrame ==
    /\ DOMAIN old_state \subseteq DOMAIN state
    /\ ret.op # "set_state" => state = old_state
    /\ ret.op = "clear_memory" => memory = <<>>

\* clear on a context with state and registers
C7_Witness ==
    /\ ret.op = "clear_memory"
    /\ Len(old_memory) >= 2
    /\ state # EmptyMap
    /\ memory = <<>>

(***************************************************************************)
(* The lexer's properties.  lx[1].input is the text handed to Lexer::new.  *)
(***************************************************************************)
\* the token stream of a text with every include expanded in place: after an
\* Include token come the tokens of the named file (a file that does not
\* exist gives none), and no end-of-input of an included file
RECURSIVE FlatTokens(_, _)
FlatTokens(text, pos) ==
    LET r == Scan(text, pos)
    IN  IF r.tok = Eof THEN <<>>
        ELSE IF r.tok.kind = "Include"
        THEN <<r.tok>>
             \o (IF r.tok.text \in DOMAIN Files THEN FlatTokens(Files[r.tok.text], 0)
                 ELSE <<>>)
             \o FlatTokens(text, r.pos)
        ELSE <<r.tok>> \o FlatTokens(text, r.pos)

ExpectedStream(text) == FlatTokens(text, 0) \o <<Eof>>

\* C8: popping an included file is transparent: the caller's tokens are those
\* of the text with its includes expanded in place, at any nesting depth; an
\* end-of-input reaches the caller only as the last token, when the outermost
\* lexer is exhausted and owns no inner lexer.
C8_PopIsTransparent ==
    lstatus \in {"running", "done"} =>
        LET expected == ExpectedStream(lx[1].input)
        IN  /\ Len(out) <= Len(expected)
            /\ out = SubSeq(expected, 1, Len(out))
            /\ \A i \in 1..Len(out) :
                  out[i] = Eof =>
                      /\ i = Len(out)
                      /\ Len(lx) = 1
                      /\ lx[1].pos >= Len(lx[1].input)
            /\ lstatus = "done" <=> (Len(out) > 0 /\ out[Len(out)] = Eof)

\* the call that met the end of file "a" (included at depth 1, itself
\* including "b") returned the outer text's own next token
C8_Witness ==
    /\ lstatus = "running"
    /\ lx = <<[input |-> "p $include \"a\" q", pos |-> 16,
               included_files |-> <<"x $include \"b\" y">>]>>
    /\ tok = Tok("Identifier", "q")
    /\ Len(out) >= 2
    /\ out[Len(out) - 1] = Tok("Identifier", "y")

\* the literal a text starts with: the text up to the first blank or ';'
RECURSIVE LiteralEnd(_, _)
LiteralEnd(text, pos) ==
    IF pos >= Len(text) \/ CharAt(text, pos) \in {" ", ";"} THEN pos
    ELSE LiteralEnd(text, pos + 1)
ClaimLiteral(text) == Slice(text, 0, LiteralEnd(text, 0))
ClaimRest(text) == Slice(text, LiteralEnd(text, 0), Len(text))

CharsOf(text) == {CharAt(text, i) : i \in 0..(Len(text) - 1)}
Positions(text, set) == {i \in 0..(Len(text) - 1) : CharAt(text, i) \in set}

\* a decimal literal with no exponent marker: digits with at most one dot
IsDecimal(text) ==
    /\ Len(text) > 0
    /\ CharsOf(text) \subseteq Digits \cup {"."}
    /\ Cardinality(Positions(text, {"."})) <= 1
    /\ Positions(text, Digits) # {}

\* <base>e<n> or <base>E<n>: one marker, a decimal base, n a text of digits
MarkerOf(text) == CHOOSE i \in Positions(text, {"e", "E"}) : TRUE
SciBase(text) == Slice(text, 0, MarkerOf(text))
SciExp(text) == Slice(text, MarkerOf(text) + 1, Len(text))
IsSci(text) ==
    /\ Cardinality(Positions(text, {"e", "E"})) = 1
    /\ IsDecimal(SciBase(text))
    /\ Len(SciExp(text)) > 0
    /\ CharsOf(SciExp(text)) \subseteq Digits

\* a text of digits without its leading zeros ("0" for zero)
Canonical(n) == IF StripZeros(n) = "" THEN "0" ELSE StripZeros(n)

\* text is base followed by exactly n '0' characters, n a text of digits
IsExpanded(text, base, n) ==
    /\ Len(text) >= Len(base)
    /\ Slice(text, 0, Len(base)) = base
    /\ \A i \in Len(base)..(Len(text) - 1) : CharAt(text, i) = "0"
    /\ DecimalText(Len(text) - Len(base)) = Canonical(n)

\* n, a text of digits, is at most 2147483647
FitsI32(n) ==
    \/ Len(Canonical(n)) < Len(I32Max)
    \/ Len(Canonical(n)) = Len(I32Max) /\ DigitsLeq(Canonical(n), I32Max)

\* the literal is one token: the next token is the first of the rest of the text
OneToken == Len(out) >= 2 => out[2] = Scan(ClaimRest(lx[1].input), 0).tok

\* C9 as stated: a decimal literal with no exponent marker is returned
\* unchanged as one Number token, and <base>e<n> or <base>E<n>, for every
\* non-negative decimal integer n, as one Number token whose text is <base>
\* followed by exactly n '0' characters.
C9_AnyExponent ==
    (lstatus \in {"running", "done"} /\ Len(out) >= 1) =>
        LET lit == ClaimLiteral(lx[1].input)
        IN  /\ IsDecimal(lit) => out[1] = Tok("Number", lit) /\ OneToken
            /\ IsSci(lit) =>
                  /\ out[1].kind = "Number"
                  /\ IsExpanded(out[1].text, SciBase(lit), SciExp(lit))
                  /\ OneToken

\* C9, amended: as stated, for every n that fits a signed 32-bit integer
\* (n <= 2147483647).
C9_ExponentInI32 ==
    (lstatus \in {"running", "done"} /\ Len(out) >= 1) =>
        LET lit == ClaimLiteral(lx[1].input)
        IN  /\ IsDecimal(lit) => out[1] = Tok("Number", lit) /\ OneToken
            /\ (IsSci(lit) /\ FitsI32(SciExp(lit))) =>
                  /\ out[1].kind = "Number"
                  /\ IsExpanded(out[1].text, SciBase(lit), SciExp(lit))
                  /\ OneToken

\* "123 1e5"-like: the literal 1e5 came out as 100000, then the next literal
C9_Witness ==
    /\ lx[1].input = "1e5 7"
    /\ out = <<Tok("Number", "100000"), Tok("Number", "7")>>

(***************************************************************************)
(* The parser's properties.  parser.lexer[1].input is the text of the      *)
(* value expression handed to Lexer::new.                                  *)
(***************************************************************************)
\* the text up to the first ';'
RECURSIVE ExpressionEnd(_, _)
ExpressionEnd(text, pos) ==
    IF pos >= Len(text) \/ CharAt(text, pos) = ";" THEN pos
    ELSE ExpressionEnd(text, pos + 1)

\* where the run of digits that starts at pos ends
RECURSIVE DigitRunEnd(_, _)
DigitRunEnd(text, pos) ==
    IF pos < Len(text) /\ CharAt(text, pos) \in Digits THEN DigitRunEnd(text, pos + 1)
    ELSE pos

\* the items of an expression from pos on: runs of digits, and single
\* characters that are neither digits nor spaces
RECURSIVE ItemsFrom(_, _)
ItemsFrom(text, pos) ==
    IF pos >= Len(text) THEN <<>>
    ELSE IF CharAt(text, pos) = " " THEN ItemsFrom(text, pos + 1)
    ELSE IF CharAt(text, pos) \in Digits
    THEN <<Slice(text, pos, DigitRunEnd(text, pos))>> \o ItemsFrom(text, DigitRunEnd(text, pos))
    ELSE <<CharAt(text, pos)>> \o ItemsFrom(text, pos + 1)
ExpressionItems(text) == ItemsFrom(Slice(text, 0, ExpressionEnd(text, 0)), 0)

\* n0 op1 n1 ... opk nk: numbers of one to four digits between operators
IsExpression(items) ==
    /\ Len(items) % 2 = 1
    /\ \A i \in 1..Len(items) :
          IF i % 2 = 1
          THEN Len(items[i]) <= 4 /\ CharsOf(items[i]) \subseteq Digits
          ELSE items[i] \in {"+", "-", "*", "/", "%", "^"}

\* the number a run of digits writes
RECURSIVE RefNumber(_)
RefNumber(digits) ==
    IF digits = "" THEN 0
    ELSE 10 * RefNumber(SubSeq(digits, 1, Len(digits) - 1))
            + (CHOOSE d \in 0..9 : DecimalText(d) = SubSeq(digits, Len(digits), Len(digits)))

\* x^y, or -1 when it is above 1000000
RECURSIVE RefPow(_, _)
RefPow(x, y) ==
    IF y = 0 THEN 1
    ELSE IF x <= 1 THEN x
    ELSE IF y > 20 THEN -1
    ELSE LET r == RefPow(x, y - 1)
         IN  IF r < 0 \/ r > 1000000 \div x THEN -1 ELSE r * x

\* x op y on the natural numbers, or -1 when it is no natural number up to
\* 1000000 (a u128 holds every such value in either build)
RefApply(op, x, y) ==
    CASE op = "+" -> IF x + y > 1000000 THEN -1 ELSE x + y
      [] op = "-" -> IF x < y THEN -1 ELSE x - y
      [] op = "*" -> IF y > 0 /\ x > 1000000 \div y THEN -1 ELSE x * y
      [] op = "/" -> IF y = 0 THEN -1 ELSE x \div y
      [] op = "%" -> IF y = 0 THEN -1 ELSE x % y
      [] op = "^" -> RefPow(x, y)

\* (((n0 op1 n1) op2 n2) ... opk nk) for the first k operators of items, or
\* -1 when a partial result is none
RECURSIVE RefFold(_, _)
RefFold(items, k) ==
    IF k = 0 THEN RefNumber(items[1])
    ELSE LET left == RefFold(items, k - 1)
         IN  IF left < 0 THEN -1
             ELSE RefApply(items[2 * k], left, RefNumber(items[2 * k + 1]))

\* C10: a value expression n0 op1 n1 ... opk nk over + - * / % ^ is folded
\* strictly from left to right, as (((n0 op1 n1) op2 n2) ... opk nk), with no
\* operator precedence: expect_value returns the Number of that value
\* (10 - 3 * 2 gives 14).
C10_LeftToRight ==
    pstatus \in {"done", "panic", "diverged"} =>
        LET items == ExpressionItems(parser.lexer[1].input)
            folded == RefFold(items, Len(items) \div 2)
        IN  (IsExpression(items) /\ folded >= 0) =>
                /\ pstatus = "done"
                /\ node.kind = "Number"
                /\ node.value = DecimalText(folded)

\* 10 - 3 * 2 was folded to 14
C10_Witness ==
    /\ pstatus = "done"
    /\ parser.lexer[1].input = "10 - 3 * 2"
    /\ node.kind = "Number"
    /\ node.value = "14"

\* C11 as stated: lexing and folding 10e12 * 5 gives the Number node with the
\* decimal text 5000000000000.
C11_AsStated ==
    (pstatus \in {"done", "panic", "diverged"}
        /\ parser.lexer[1].input = "10e12 * 5") =>
            /\ pstatus = "done"
            /\ node.kind = "Number"
            /\ node.value = "5000000000000"

\* C11, amended: lexing and folding 10e12 * 5 gives the Number node with the
\* decimal text 50000000000000 (10e12 is 10 followed by twelve zeros, and
\* five times that is 5 followed by thirteen zeros), in either build.
C11_FoldsToProduct ==
    (pstatus \in {"done", "panic", "diverged"}
        /\ parser.lexer[1].input = "10e12 * 5") =>
            /\ pstatus = "done"
            /\ node.kind = "Number"
            /\ node.value = "50000000000000"

\* 10e12 * 5 was folded
C11_Witness ==
    /\ pstatus = "done"
    /\ parser.lexer[1].input = "10e12 * 5"
    /\ node.kind = "Number"
    /\ Len(node.value) = 14

\* the items of the expression are two numbers around one operator
IsPair(items) ==
    /\ Len(items) = 3
    /\ CharsOf(items[1]) \subseteq Digits
    /\ CharsOf(items[3]) \subseteq Digits
    /\ items[2] \in {"+", "-", "*", "/", "%", "^"}

\* r is the result of a op b on the natural numbers
IsExact(op, a, b, r) ==
    CASE op = "+" -> r = AddN(a, b)
      [] op = "-" -> Cmp(a, b) >= 0 /\ r = SubN(a, b)
      [] op = "*" -> r = MulN(a, b)
      [] op = "/" -> b # <<>> /\ r = DivModN(a, b).q
      [] op = "%" -> b # <<>> /\ r = DivModN(a, b).r
      [] op = "^" ->
            IF b = <<>> THEN r = One
            ELSE IF Cmp(a, One) <= 0 THEN r = a
            ELSE /\ Cmp(b, <<128>>) < 0
                 /\ ~PowFits(a, IntOf(b)).overflow
                 /\ r = PowFits(a, IntOf(b)).val

\* C12: a fold step never wraps: for every pair of operands and every
\* operator of + - * / % ^ it either aborts, or the folded Number is exactly
\* the result of the operation on the two full operand values.
C12_NeverWraps ==
    (pstatus = "done" /\ IsPair(ExpressionItems(parser.lexer[1].input))) =>
        /\ node.kind = "Number"
        /\ IsExact(ExpressionItems(parser.lexer[1].input)[2],
                   NatOfText(ExpressionItems(parser.lexer[1].input)[1]),
                   NatOfText(ExpressionItems(parser.lexer[1].input)[3]),
                   NatOfText(node.value))

\* <base>e-<n> or <base>E-<n>: the exponent is a minus sign and digits
IsNegativeExp(text) ==
    /\ Cardinality(Positions(text, {"e", "E"})) = 1
    /\ IsDecimal(SciBase(text))
    /\ Len(SciExp(text)) > 1
    /\ CharAt(SciExp(text), 0) = "-"
    /\ CharsOf(Slice(SciExp(text), 1, Len(SciExp(text)))) \subseteq Digits

\* <base>e<n>.<m> or <base>E<n>.<m>: the exponent has a fractional part
IsFractionalExp(text) ==
    /\ Cardinality(Positions(text, {"e", "E"})) = 1
    /\ IsDecimal(SciBase(text))
    /\ IsDecimal(SciExp(text))
    /\ Cardinality(Positions(SciExp(text), {"."})) = 1

\* C16: a numeric literal whose exponent is negative (1e-5) or fractional
\* (1e2.5) is not expanded: next() returns a single Number token whose text
\* is the whole raw literal exactly as written.
C16_RawLiteral ==
    (lstatus \in {"running", "done"} /\ Len(out) >= 1
        /\ (\/ IsNegativeExp(ClaimLiteral(lx[1].input))
            \/ IsFractionalExp(ClaimLiteral(lx[1].input)))) =>
            /\ out[1] = Tok("Number", ClaimLiteral(lx[1].input))
            /\ OneToken

\* C17: no include-cycle detection exists: when a file's include chain leads
\* back to itself, directly or through other files, repeated next_token calls
\* nest lexers without bound: every depth up to the deepest chain followed is
\* reached and never left again, and end-of-input is never returned (nor does
\* the call fail).
C17_NestsWithoutBound ==
    /\ [](lstatus = "running")
    /\ [](\A k \in 1..Len(out) : out[k] # Eof)
    /\ \A d \in 1..MaxDepth : <>[](Len(lx) >= d)

\* the chain is MaxDepth deep and its innermost lexer reads a file that a
\* lexer further out is reading too
C17_Witness ==
    /\ Len(lx) = MaxDepth
    /\ lstatus = "running"
    /\ lx[MaxDepth].input = lx[MaxDepth - 2].input
    /\ lx[MaxDepth].input # lx[MaxDepth - 1].input
    /\ tok.kind = "Include"

(***************************************************************************)
(* parse's properties.  parser.lexer[1].input is the source text handed to *)
(* Lexer::new.                                                             *)
(***************************************************************************)
\* how often word occurs in text
Occurrences(text, word) ==
    Cardinality({i \in 0..(Len(text) - Len(word)) :
                    Slice(text, i, i + Len(word)) = word})

StartsWith(text, prefix) ==
    Len(text) >= Len(prefix) /\ Slice(text, 0, Len(prefix)) = prefix

\* the first pass of parse's loop is over
FirstPassOver == ~(pstatus = "parsing" /\ root = <<>>)

\* C13: a $procedures block is recognized but not parsed: each occurrence of
\* the keyword contributes exactly one Procedures node with an empty list to
\* Root (so Root never holds more Procedures nodes than the text has keywords),
\* and parse goes on to consume the token stream.
C13_OneNodePerKeyword ==
    pstatus \in {"parsing", "returned"} =>
        /\ \A k \in 1..Len(root) :
              root[k].kind = "Procedures" => root[k].value = <<>>
        /\ Cardinality({k \in 1..Len(root) : root[k].kind = "Procedures"})
              <= Occurrences(parser.lexer[1].input, "$procedures")

\* C14: a bare string literal is a value wherever a value is expected: the
\* const entry u8 name = "s"; yields the ConstDeclaration with the value
\* StringLiteral s, the params entry k = "s" yields the pair (k, StringLiteral
\* s), and parsing goes on after the literal.
C14_StringIsAValue ==
    /\ (StartsWith(parser.lexer[1].input, "$consts { u8 name = \"s\"; }")
            /\ FirstPassOver) =>
          /\ root # <<>>
          /\ root[1] = Consts(<<ConstDeclaration("name", "U8", StringLiteral("s"))>>)
    /\ (StartsWith(parser.lexer[1].input,
                   "$define { schemes = [ { preset = \"t\" params = { k = \"s\" } } ] }")
            /\ FirstPassOver) =>
          /\ root # <<>>
          /\ root[1] = Define(<<>>,
                 <<Schemes(<<Scheme("t", <<<<"k", StringLiteral("s")>>>>)>>)>>)

\* C15: the parser either fully succeeds or aborts: parse returns one Root
\* node or stops with a fatal condition; a $define block and an array literal
\* cut by the end of the input abort, and no input makes parse run forever at
\* the end of the input.
C15_ReturnsOrAborts == pstatus \in {"parsing", "returned", "panic"}

====
